---- MODULE Spec2Model ----
(***************************************************************************)
(* Provider proxying layer of the JSON-RPC gateway:                        *)
(*   AllnodesProvider   (HTTP forwarding, src/providers/allnodes.rs)       *)
(*   AllnodesWsProvider (WebSocket bridging, src/providers/allnodes.rs)    *)
(*   PublicnodeProvider (HTTP forwarding, src/providers/publicnode.rs)     *)
(*                                                                         *)
(* Every inbound request is served by one task.  A task is suspended only  *)
(* at the awaits of proxy(): client.request(), to_bytes() and              *)
(* connect_async().  The code between two awaits is one atomic action.     *)
(* `inflight` is the bag of the calls suspended at an await, `returned`    *)
(* the outcome of the call that returned last, as the router (the caller   *)
(* of proxy and of is_rate_limited) sees it.                               *)
(***************************************************************************)
EXTENDS Integers, Sequences, FiniteSets, Bags, TLC

VARIABLES providers, inflight, returned

vars == <<providers, inflight, returned>>

(* Number of request tasks that may be in flight at once. *)
MaxTasks == 2

--------------------------------------------------------------------------
(* Configuration fragments the factories read. *)

ChainIds == {"eip155:1", "eip155:137", "eip155:56"}

AllnodesConfig ==
    [ supported_chains    |-> [c \in {"eip155:1", "eip155:137"} |->
                                 IF c = "eip155:1" THEN "eth" ELSE "polygon"],
      supported_ws_chains |-> [c \in {"eip155:1"} |-> "eth"],
      api_key             |-> "allnodes-key" ]

PublicnodeConfig ==
    [ supported_chains |-> [c \in {"eip155:1", "eip155:56"} |->
                              IF c = "eip155:1" THEN "ethereum-rpc" ELSE "bsc-rpc"] ]

HttpProviders == {"AllnodesProvider", "PublicnodeProvider"}
WsProviders   == {"AllnodesWsProvider"}
ProviderNames == HttpProviders \cup WsProviders

(* RpcProviderFactory::new of the three providers. *)
NewAllnodesProvider(cfg) ==
    [ supported_chains |-> cfg.supported_chains, api_key |-> cfg.api_key ]

NewAllnodesWsProvider(cfg) ==
    [ supported_chains |-> cfg.supported_ws_chains, api_key |-> cfg.api_key ]

NewPublicnodeProvider(cfg) ==
    [ supported_chains |-> cfg.supported_chains, api_key |-> "" ]

--------------------------------------------------------------------------
(* HTTP status codes. *)

SWITCHING_PROTOCOLS   == 101
TOO_MANY_REQUESTS     == 429
INTERNAL_SERVER_ERROR == 500

(* Statuses an upstream answers with: a success, a rate limit of its own, *)
(* an outage.                                                             *)
UpstreamStatuses == {200, 429, 503}

(* http::StatusCode::is_success *)
is_success(status) == status >= 200 /\ status < 300

--------------------------------------------------------------------------
(* JSON-RPC error codes and messages.  A message is its sequence of words. *)

(* -32603 is JSON-RPC "Internal error", -32602 "Invalid params". *)
InternalErrorCodes == {-32603}

ErrorCodes == {-32603, -32602}

Messages ==
    { <<"rate", "limit", "exceeded">>,
      <<"Too", "Many", "Requests">>,
      <<"header", "not", "found">>,
      <<"header", "not", "found", "quota">>,
      <<"execution", "reverted">> }

ToLowerWord(w) ==
    CASE w = "Too"      -> "too"
      [] w = "Many"     -> "many"
      [] w = "Requests" -> "requests"
      [] OTHER          -> w

to_lowercase(msg) == [i \in 1..Len(msg) |-> ToLowerWord(msg[i])]

(* str::contains: the phrase occurs as a contiguous run of the message. *)
contains(msg, phrase) ==
    \E i \in 0..(Len(msg) - Len(phrase)) :
        \A j \in 1..Len(phrase) : msg[i + j] = phrase[j]

RateLimitPhrases ==
    { <<"rate", "limit">>, <<"too", "many", "requests">>, <<"quota">> }

NodeErrorPhrases ==
    { <<"header", "not", "found">>, <<"block", "not", "found">> }

is_internal_error_rpc_code(code) == code \in InternalErrorCodes

is_rate_limited_error_rpc_message(msg) ==
    \E p \in RateLimitPhrases : contains(to_lowercase(msg), p)

is_node_error_rpc_message(msg) ==
    \E p \in NodeErrorPhrases : contains(to_lowercase(msg), p)

--------------------------------------------------------------------------
(* Bodies.  The payload of a body is what its bytes spell; `host` is the   *)
(* upstream that produced the bytes.                                       *)

NoMessage == << >>

Payloads ==
    { [kind |-> "not_json",    code |-> 0, message |-> NoMessage],
      [kind |-> "not_jsonrpc", code |-> 0, message |-> NoMessage],
      [kind |-> "result",      code |-> 0, message |-> NoMessage] }
    \cup
    { [kind |-> "error", code |-> c, message |-> m] : c \in InternalErrorCodes, m \in Messages }
    \cup
    { [kind |-> "error", code |-> c, message |-> m] :
        c \in ErrorCodes \ InternalErrorCodes,
        m \in { <<"rate", "limit", "exceeded">>, <<"header", "not", "found">> } }

NoHost == << >>
NoBody == [host |-> NoHost, payload |-> [kind |-> "none", code |-> 0, message |-> NoMessage]]

(* serde_json::from_slice::<jsonrpc::Response>(&body) *)
from_slice(body) ==
    IF body.payload.kind \in {"result", "error"}
    THEN [ ok    |-> TRUE,
           error |-> IF body.payload.kind = "error"
                     THEN [some |-> TRUE, code |-> body.payload.code,
                           message |-> body.payload.message]
                     ELSE [some |-> FALSE, code |-> 0, message |-> NoMessage] ]
    ELSE [ ok    |-> FALSE,
           error |-> [some |-> FALSE, code |-> 0, message |-> NoMessage] ]

--------------------------------------------------------------------------
(* Responses handed back to the router. *)

NoResponse == [status |-> 0, body |-> NoBody, content_type |-> ""]

(* (StatusCode, Bytes).into_response(): axum tags a Bytes body as          *)
(* application/octet-stream.                                               *)
into_response(status, body) ==
    [status |-> status, body |-> body, content_type |-> "application/octet-stream"]

(* response.headers_mut().insert("Content-Type", "application/json") *)
insert_content_type(response) ==
    [response EXCEPT !.content_type = "application/json"]

(* ws.on_upgrade(callback): the 101 answer of the inbound handshake. *)
on_upgrade_response ==
    [status |-> SWITCHING_PROTOCOLS, body |-> NoBody, content_type |-> ""]

--------------------------------------------------------------------------
(* supported_chains.get(chain_id) *)

NoToken == ""

get_default(map, chain_id) ==
    IF chain_id \in DOMAIN map
    THEN [some |-> TRUE, value |-> map[chain_id]]
    ELSE [some |-> TRUE, value |-> "eth"]

get(map, chain_id) ==
    IF chain_id \in DOMAIN map
    THEN [some |-> TRUE, value |-> map[chain_id]]
    ELSE [some |-> FALSE, value |-> NoToken]

supports_caip_chainid(p, chain_id) ==
    chain_id \in DOMAIN providers[p].supported_chains

supported_caip_chains(p) == DOMAIN providers[p].supported_chains

provider_kind(p) ==
    IF p = "PublicnodeProvider" THEN "Publicnode" ELSE "Allnodes"

--------------------------------------------------------------------------
(* Upstream URLs. *)

NoUri == [scheme |-> "", host |-> NoHost, port |-> "", path |-> ""]

AllnodesUriFixedChain(chain, api_key) ==
    [scheme |-> "https", host |-> <<"eth", "allnodes.me">>, port |-> "8545", path |-> api_key]

(* format!("https://{}.allnodes.me:8545/{}", chain, &self.api_key) *)
AllnodesUri(chain, api_key) ==
    [scheme |-> "https", host |-> <<chain, "allnodes.me">>, port |-> "8545", path |-> api_key]

(* format!("wss://{}.allnodes.me:8546/{}", chain, &self.api_key) *)
AllnodesWsUri(chain, api_key) ==
    [scheme |-> "wss", host |-> <<chain, "allnodes.me">>, port |-> "8546", path |-> api_key]

(* format!("https://{chain}.publicnode.com") *)
PublicnodeUri(chain) ==
    [scheme |-> "https", host |-> <<chain, "publicnode.com">>, port |-> "", path |-> ""]

HttpUri(p, chain) ==
    IF p = "AllnodesProvider"
    THEN AllnodesUri(chain, providers[p].api_key)
    ELSE PublicnodeUri(chain)

--------------------------------------------------------------------------
(* The response AllnodesProvider::proxy builds from the upstream's status  *)
(* and body.                                                               *)

AllnodesRespondAnyInternal(status, body) ==
    LET json_response == from_slice(body)
        error         == json_response.error
    IN  IF /\ is_success(status)
           /\ json_response.ok
           /\ error.some
           /\ is_internal_error_rpc_code(error.code)
        THEN into_response(TOO_MANY_REQUESTS, body)
        ELSE insert_content_type(into_response(status, body))

AllnodesRespondAnyStatus(status, body) ==
    LET json_response == from_slice(body)
        error         == json_response.error
    IN  IF /\ json_response.ok
           /\ error.some
           /\ is_internal_error_rpc_code(error.code)
           /\ is_rate_limited_error_rpc_message(error.message)
        THEN into_response(TOO_MANY_REQUESTS, body)
        ELSE IF /\ json_response.ok
                /\ error.some
                /\ is_internal_error_rpc_code(error.code)
                /\ is_node_error_rpc_message(error.message)
        THEN into_response(INTERNAL_SERVER_ERROR, body)
        ELSE insert_content_type(into_response(status, body))

AllnodesRespond(status, body) ==
    LET json_response == from_slice(body)
        error         == json_response.error
    IN  IF /\ is_success(status)
           /\ json_response.ok
           /\ error.some
           /\ is_internal_error_rpc_code(error.code)
           /\ is_rate_limited_error_rpc_message(error.message)
        THEN into_response(TOO_MANY_REQUESTS, body)
        ELSE IF /\ is_success(status)
                /\ json_response.ok
                /\ error.some
                /\ is_internal_error_rpc_code(error.code)
                /\ is_node_error_rpc_message(error.message)
        THEN into_response(INTERNAL_SERVER_ERROR, body)
        ELSE insert_content_type(into_response(status, body))

(* The response PublicnodeProvider::proxy builds: no inspection of the body. *)
PublicnodeRespond(status, body) ==
    insert_content_type(into_response(status, body))

Respond(p, status, body) ==
    IF p = "AllnodesProvider"
    THEN AllnodesRespond(status, body)
    ELSE PublicnodeRespond(status, body)

(* RateLimited::is_rate_limited, the same in the three providers. *)
is_rate_limited_any_error(response) == response.status >= 400

is_rate_limited(response) == response.status = TOO_MANY_REQUESTS

--------------------------------------------------------------------------
(* State. *)

(* A call of proxy suspended at an await: its arguments and locals. *)
Call(pc, p, chain_id, uri) ==
    [ pc |-> pc, provider |-> p, chain_id |-> chain_id, uri |-> uri,
      status |-> 0, requests |-> 0, connects |-> 0 ]

NothingReturned ==
    [ outcome |-> "none", provider |-> "", chain_id |-> "", uri |-> NoUri,
      requests |-> 0, connects |-> 0, connected |-> FALSE,
      upstream_status |-> 0, upstream_body |-> NoBody, response |-> NoResponse,
      checked |-> FALSE, rate_limited |-> FALSE,
      upgraded |-> FALSE, bridging |-> FALSE ]

(* What the caller of the call c gets back. *)
Return(c, outcome, response) ==
    [ NothingReturned EXCEPT
        !.outcome  = outcome,
        !.provider = c.provider,
        !.chain_id = c.chain_id,
        !.uri      = c.uri,
        !.requests = c.requests,
        !.connects = c.connects,
        !.response = response ]

Suspended(pc) == { c \in BagToSet(inflight) : c.pc = pc }

Resume(c, next) == (inflight (-) SetToBag({c})) (+) SetToBag({next})

Finish(c) == inflight (-) SetToBag({c})

Init ==
    /\ providers = [ p \in ProviderNames |->
                       CASE p = "AllnodesProvider"   -> NewAllnodesProvider(AllnodesConfig)
                         [] p = "AllnodesWsProvider" -> NewAllnodesWsProvider(AllnodesConfig)
                         [] OTHER                    -> NewPublicnodeProvider(PublicnodeConfig) ]
    /\ inflight = EmptyBag
    /\ returned = NothingReturned

--------------------------------------------------------------------------
(* RpcProvider::proxy of AllnodesProvider and PublicnodeProvider.          *)

(* Entry up to the first await: chain lookup, URL, request sent. *)
HttpProxyCall ==
    /\ BagCardinality(inflight) < MaxTasks
    /\ \E p \in HttpProviders, chain_id \in ChainIds :
         LET chain == get(providers[p].supported_chains, chain_id)
         IN  IF ~chain.some
             THEN /\ returned' = [ NothingReturned EXCEPT
                                     !.outcome = "ChainNotFound",
                                     !.provider = p, !.chain_id = chain_id ]
                  /\ UNCHANGED inflight
             ELSE /\ inflight' = inflight (+) SetToBag({
                                   [ Call("requesting", p, chain_id, HttpUri(p, chain.value))
                                       EXCEPT !.requests = 1 ] })
                  /\ UNCHANGED returned
    /\ UNCHANGED providers

(* self.client.request(hyper_request).await? fails. *)
HttpRequestFailRetry ==
    \E c \in Suspended("requesting") :
        /\ IF c.requests < 2
           THEN /\ inflight' = Resume(c, [c EXCEPT !.requests = @ + 1])
                /\ UNCHANGED returned
           ELSE /\ returned' = Return(c, "Transport", NoResponse)
                /\ inflight' = Finish(c)
        /\ UNCHANGED providers

HttpRequestFail ==
    \E c \in Suspended("requesting") :
        /\ returned' = Return(c, "Transport", NoResponse)
        /\ inflight' = Finish(c)
        /\ UNCHANGED providers

(* self.client.request(hyper_request).await? yields the response head;     *)
(* only its status is kept, the upstream's headers are dropped with it.    *)
HttpRequestOk ==
    \E c \in Suspended("requesting") :
        /\ \E status \in UpstreamStatuses,
              upstream_content_type \in {"text/html", "application/json"} :
             inflight' = Resume(c, [c EXCEPT !.pc = "reading", !.status = status])
        /\ UNCHANGED <<providers, returned>>

(* hyper::body::to_bytes(response.into_body()).await? fails. *)
HttpBodyFail ==
    \E c \in Suspended("reading") :
        /\ returned' = Return(c, "Transport", NoResponse)
        /\ inflight' = Finish(c)
        /\ UNCHANGED providers

(* The body is read; the rest of proxy runs to its return. *)
HttpBodyOk ==
    \E c \in Suspended("reading") :
        /\ \E payload \in Payloads :
             LET body == [host |-> c.uri.host, payload |-> payload]
             IN  returned' = [ Return(c, "Ok", Respond(c.provider, c.status, body))
                                 EXCEPT !.upstream_status = c.status,
                                        !.upstream_body   = body ]
        /\ inflight' = Finish(c)
        /\ UNCHANGED providers

--------------------------------------------------------------------------
(* RpcWsProvider::proxy of AllnodesWsProvider.                             *)

(* Entry up to the await of connect_async. *)
WsProxyCall ==
    /\ BagCardinality(inflight) < MaxTasks
    /\ \E chain_id \in ChainIds :
         LET p     == "AllnodesWsProvider"
             chain == get(providers[p].supported_chains, chain_id)
         IN  IF ~chain.some
             THEN /\ returned' = [ NothingReturned EXCEPT
                                     !.outcome = "ChainNotFound",
                                     !.provider = p, !.chain_id = chain_id ]
                  /\ UNCHANGED inflight
             ELSE /\ inflight' = inflight (+) SetToBag({
                                   [ Call("connecting", p, chain_id,
                                          AllnodesWsUri(chain.value, providers[p].api_key))
                                       EXCEPT !.connects = 1 ] })
                  /\ UNCHANGED returned
    /\ UNCHANGED providers

(* connect_async(uri).await fails: map_err(AxumTungstenite)? *)
WsConnectFailUpgrades ==
    \E c \in Suspended("connecting") :
        /\ returned' = Return(c, "Ok", on_upgrade_response)
        /\ inflight' = Finish(c)
        /\ UNCHANGED providers

WsConnectFail ==
    \E c \in Suspended("connecting") :
        /\ returned' = Return(c, "AxumTungstenite", NoResponse)
        /\ inflight' = Finish(c)
        /\ UNCHANGED providers

(* connect_async(uri).await succeeds: Ok(ws.on_upgrade(callback)). *)
WsConnectOk ==
    \E c \in Suspended("connecting") :
        /\ returned' = [Return(c, "Ok", on_upgrade_response) EXCEPT !.connected = TRUE]
        /\ inflight' = Finish(c)
        /\ UNCHANGED providers

(* The server completes the inbound handshake and runs the callback:       *)
(* ws::proxy(project_id, socket, websocket_provider).with_metrics(..).     *)
OnUpgrade ==
    /\ returned.outcome = "Ok"
    /\ returned.provider \in WsProviders
    /\ ~returned.upgraded
    /\ returned' = [returned EXCEPT !.upgraded = TRUE, !.bridging = TRUE]
    /\ UNCHANGED <<providers, inflight>>

--------------------------------------------------------------------------
(* The router asks the provider whether the returned response is a rate    *)
(* limit.                                                                  *)
IsRateLimited ==
    /\ returned.outcome = "Ok"
    /\ ~returned.checked
    /\ returned' = [returned EXCEPT !.checked = TRUE,
                                    !.rate_limited = is_rate_limited(returned.response)]
    /\ UNCHANGED <<providers, inflight>>

Next ==
    \/ HttpProxyCall
    \/ HttpRequestFail
    \/ HttpRequestOk
    \/ HttpBodyFail
    \/ HttpBodyOk
    \/ WsProxyCall
    \/ WsConnectFail
    \/ WsConnectOk
    \/ OnUpgrade
    \/ IsRateLimited

Spec == Init /\ [][Next]_vars

--------------------------------------------------------------------------
(* Vocabulary of the properties. *)

HttpOk == returned.outcome = "Ok" /\ returned.provider \in HttpProviders

UpstreamAnswered ==
    returned.provider \in HttpProviders /\ returned.upstream_body # NoBody

UpstreamError == returned.upstream_body.payload

UpstreamIsRateLimitError ==
    /\ UpstreamError.kind = "error"
    /\ is_internal_error_rpc_code(UpstreamError.code)
    /\ is_rate_limited_error_rpc_message(UpstreamError.message)

UpstreamIsNodeError ==
    /\ UpstreamError.kind = "error"
    /\ is_internal_error_rpc_code(UpstreamError.code)
    /\ is_node_error_rpc_message(UpstreamError.message)
    /\ ~is_rate_limited_error_rpc_message(UpstreamError.message)

UpstreamIsUnclassified ==
    \/ UpstreamError.kind \in {"not_json", "not_jsonrpc", "result"}
    \/ /\ UpstreamError.kind = "error"
       /\ ~is_internal_error_rpc_code(UpstreamError.code)
    \/ /\ UpstreamError.kind = "error"
       /\ is_internal_error_rpc_code(UpstreamError.code)
       /\ ~is_rate_limited_error_rpc_message(UpstreamError.message)
       /\ ~is_node_error_rpc_message(UpstreamError.message)

(* The host a call for chain_id on provider p has to reach, read off the   *)
(* configuration.                                                          *)
ConfiguredHost(p, chain_id) ==
    CASE p = "AllnodesProvider"   -> <<AllnodesConfig.supported_chains[chain_id], "allnodes.me">>
      [] p = "AllnodesWsProvider" -> <<AllnodesConfig.supported_ws_chains[chain_id], "allnodes.me">>
      [] OTHER                    -> <<PublicnodeConfig.supported_chains[chain_id], "publicnode.com">>

--------------------------------------------------------------------------
(* C1: a call of proxy, on any of the three providers, with a chain id that *)
(* is no key of the provider's supported_chains returns ChainNotFound and   *)
(* has issued no HTTP request and no WebSocket connect; no call in flight   *)
(* on the network carries such a chain id.                                  *)
C1_ChainNotFoundNoNetwork ==
    /\ ( /\ returned.outcome # "none"
         /\ returned.chain_id \notin DOMAIN providers[returned.provider].supported_chains )
       => /\ returned.outcome = "ChainNotFound"
          /\ returned.requests = 0
          /\ returned.connects = 0
          /\ returned.response = NoResponse
    /\ \A c \in BagToSet(inflight) :
         c.chain_id \in DOMAIN providers[c.provider].supported_chains

(* An unknown chain was refused by the WebSocket provider, for a chain its  *)
(* HTTP sibling serves.                                                     *)
C1_Witness ==
    /\ returned.outcome = "ChainNotFound"
    /\ returned.provider = "AllnodesWsProvider"
    /\ returned.chain_id = "eip155:137"
    /\ returned.requests = 0 /\ returned.connects = 0

(* C2: on both HTTP providers, an upstream answer of status 200 whose body  *)
(* is a JSON-RPC error with an internal-error code and a rate-limit message *)
(* is returned with status 429 and the upstream's body.                     *)
C2_RateLimitReclassified ==
    ( /\ HttpOk
      /\ returned.upstream_status = 200
      /\ UpstreamIsRateLimitError )
    => /\ returned.response.status = 429
       /\ returned.response.body = returned.upstream_body

(* C3: on both HTTP providers, an upstream answer of status 200 whose body  *)
(* is a JSON-RPC error with an internal-error code and a node-error message *)
(* (no rate-limit keyword) is returned with status 500 and the upstream's   *)
(* body.                                                                    *)
C3_NodeErrorReclassified ==
    ( /\ HttpOk
      /\ returned.upstream_status = 200
      /\ UpstreamIsNodeError )
    => /\ returned.response.status = 500
       /\ returned.response.body = returned.upstream_body

(* C4: every response an HTTP proxy returns as Ok carries                   *)
(* Content-Type: application/json.                                          *)
C4_ContentTypeJson ==
    HttpOk => returned.response.content_type = "application/json"

(* C5: when the upstream answers with a success status and the body is not  *)
(* JSON-RPC, has no error, has a code outside the internal-error set, or    *)
(* has an internal-error code with a message of neither pattern, the call   *)
(* returns Ok with the upstream's status and body.                          *)
C5_PassThroughOnSuccess ==
    ( /\ UpstreamAnswered
      /\ is_success(returned.upstream_status)
      /\ UpstreamIsUnclassified )
    => /\ returned.outcome = "Ok"
       /\ returned.response.status = returned.upstream_status
       /\ returned.response.body = returned.upstream_body

(* AllnodesProvider passed through a 200 whose internal-error message       *)
(* matches neither pattern.                                                 *)
C5_Witness ==
    /\ HttpOk
    /\ returned.provider = "AllnodesProvider"
    /\ returned.upstream_status = 200
    /\ UpstreamError.kind = "error"
    /\ is_internal_error_rpc_code(UpstreamError.code)
    /\ UpstreamError.message = <<"execution", "reverted">>
    /\ returned.response.status = 200

(* C6: a step of is_rate_limited answers true exactly when the response's   *)
(* status is 429, and leaves the response as it was.                        *)
C6_RateLimitedIffStatus429 ==
    [][ (~returned.checked /\ returned'.checked)
        => /\ returned'.rate_limited = (returned.response.status = 429)
           /\ returned'.response = returned.response ]_vars

(* is_rate_limited answered true for a 429 that proxy made of an upstream   *)
(* 200.                                                                     *)
C6_Witness ==
    /\ returned.checked
    /\ returned.rate_limited
    /\ returned.upstream_status = 200
    /\ returned.response.status = 429

(* C7: the WebSocket proxy answers the inbound handshake only after the     *)
(* outbound connect succeeded: a failed connect returns the transport error *)
(* with no upgrade and no bridging task, and an upgrade or a bridging task  *)
(* exists only for a call whose single connect succeeded.                   *)
C7_ConnectBeforeUpgrade ==
    returned.provider \in WsProviders =>
        /\ returned.outcome = "AxumTungstenite"
             => /\ ~returned.upgraded
                /\ ~returned.bridging
                /\ returned.response = NoResponse
        /\ returned.outcome = "Ok" => returned.connected
        /\ (returned.upgraded \/ returned.bridging)
             => /\ returned.connected
                /\ returned.connects = 1
                /\ returned.outcome = "Ok"
        /\ returned.bridging => returned.upgraded

(* The inbound connection was upgraded and bridged after the connect.       *)
C7_Witness ==
    /\ returned.provider = "AllnodesWsProvider"
    /\ returned.connected
    /\ returned.upgraded
    /\ returned.bridging

(* C8: a call of an HTTP proxy issues at most one upstream request; a       *)
(* transport failure ends the call with that error, one request issued and  *)
(* no response.                                                             *)
C8_SingleRequestNoRetry ==
    /\ \A c \in BagToSet(inflight) : c.requests <= 1
    /\ returned.requests <= 1
    /\ returned.outcome = "Transport"
         => /\ returned.requests = 1
            /\ returned.response = NoResponse

(* A call failed at transport level after its one request, while another    *)
(* call was still waiting.                                                  *)
C8_Witness ==
    /\ returned.outcome = "Transport"
    /\ returned.requests = 1
    /\ returned.response = NoResponse
    /\ Suspended("requesting") # {}

(* C9: whatever the interleaving of the calls in flight, every call targets *)
(* the host configured for its own chain id and returns the body that host  *)
(* sent, and the providers are as constructed.                              *)
C9_NoInterference ==
    /\ providers["AllnodesProvider"] = NewAllnodesProvider(AllnodesConfig)
    /\ providers["AllnodesWsProvider"] = NewAllnodesWsProvider(AllnodesConfig)
    /\ providers["PublicnodeProvider"] = NewPublicnodeProvider(PublicnodeConfig)
    /\ \A c \in BagToSet(inflight) :
         c.uri.host = ConfiguredHost(c.provider, c.chain_id)
    /\ HttpOk =>
         /\ returned.uri.host = ConfiguredHost(returned.provider, returned.chain_id)
         /\ returned.response.body.host = ConfiguredHost(returned.provider, returned.chain_id)
         /\ returned.response.body = returned.upstream_body

(* A call returned while a call for another chain on the same provider was  *)
(* between its two awaits.                                                  *)
C9_Witness ==
    /\ HttpOk
    /\ returned.provider = "AllnodesProvider"
    /\ \E c \in Suspended("reading") :
         /\ c.provider = returned.provider
         /\ c.chain_id # returned.chain_id

(* C10: an upstream answer with a non-success status is returned with that  *)
(* status and body, whatever JSON-RPC error the body spells.                *)
C10_NonSuccessPassThrough ==
    ( /\ HttpOk
      /\ ~is_success(returned.upstream_status) )
    => /\ returned.response.status = returned.upstream_status
       /\ returned.response.body = returned.upstream_body

(* AllnodesProvider returned a 503 that carries an internal-error           *)
(* rate-limit body.                                                         *)
C10_Witness ==
    /\ HttpOk
    /\ returned.provider = "AllnodesProvider"
    /\ returned.upstream_status = 503
    /\ UpstreamIsRateLimitError
    /\ returned.response.status = 503

====
